---- MODULE Spec2Model ----
(***************************************************************************)
(* RahaSoldi-IMS: the App component's in-memory collections, the remote    *)
(* store behind supabase, and the asynchronous handlers that reconcile     *)
(* the two (fetchData, handleCompleteSale, handleCreatePO,                 *)
(* handleUpdatePOStatus, handleUpdateItem).                                *)
(*                                                                         *)
(* Every `await supabase...` is two steps: the store executes the request  *)
(* (the Db actions, which also fix the outcome the handler will see), and    *)
(* the handler resumes (the Resume actions), running synchronously up to   *)
(* its next await.  Other handlers may run between the two.  A handler     *)
(* keeps the `inventory` and `po` it captured when it was called.          *)
(*                                                                         *)
(* Not modelled: names, categories, lastUpdated and other display fields;  *)
(* timestamps are the creation order (the record's id).                    *)
(***************************************************************************)
EXTENDS Integers, Sequences, FiniteSets, TLC

VARIABLES
    inventory,        \* useState<InventoryItem[]>: present item id -> quantity
    sales,            \* useState<SaleRecord[]>: newest first
    expenses,         \* useState<ExpenseRecord[]>
    purchaseOrders,   \* useState<PurchaseOrder[]>: newest first
    loading,          \* useState(false), set by fetchData
    adjustItem,       \* InventoryManager's useState<InventoryItem | null>
    dbInventory,      \* remote table inventory: item id -> quantity
    dbSales,          \* remote table sales: set of SaleRecord
    dbExpenses,       \* remote table expenses
    dbPurchaseOrders, \* remote table purchase_orders: set of PurchaseOrder
    ops,              \* every handler invocation so far, in call order
    session,          \* useState<Session | null>: the signed-in user's role, or NoSession
    authLoading,      \* useState(true), cleared when getSession() resolves
    activeView,       \* useState<ViewState>('dashboard')
    clock,            \* the browser's clock: the instant and the time zone
    chartData,        \* Dashboard's useMemo chartData: the rows and the sales they were
                      \* computed from; NoChart while Dashboard has not rendered
    metrics,          \* Dashboard's useMemo metrics, with the inventory and sales
                      \* they were computed from
    financials        \* FinancialReport's useMemo financials, with the sales and
                      \* expenses they were computed from

vars == <<inventory, sales, expenses, purchaseOrders, loading, adjustItem,
          dbInventory, dbSales, dbExpenses, dbPurchaseOrders, ops,
          session, authLoading, activeView, clock, chartData, metrics, financials>>

\* what the data handlers leave alone
screen == <<session, authLoading, activeView, clock, chartData, metrics, financials>>

local == <<inventory, sales, expenses, purchaseOrders, loading, adjustItem>>
remote == <<dbInventory, dbSales, dbExpenses, dbPurchaseOrders>>

----------------------------------------------------------------------------
(* Bounds and input sets *)

\* handler calls in one run
MaxOps == 2

StoredIds == {"A", "B"}
ItemIds == StoredIds \cup {"X"}          \* "X" matches no InventoryItem
InitialQuantity == [A |-> 2, B |-> 1]

SaleItem(i, q, p, c) == [itemId |-> i, quantity |-> q, priceAtSale |-> p, costAtSale |-> c]
POItem(i, q, u) == [itemId |-> i, quantity |-> q, unitCost |-> u]

\* the sales a caller passes: one line, the same item twice, two items (the
\* second at a zero price and sold beyond its stock), an item that is not in
\* inventory alone and before one that is, and a zero quantity
SaleInputs ==
    { <<SaleItem("A", 1, 3, 2)>>,
      <<SaleItem("A", 1, 3, 2), SaleItem("A", 1, 3, 2)>>,
      <<SaleItem("A", 1, 3, 2), SaleItem("B", 2, 0, 1)>>,
      <<SaleItem("X", 1, 2, 2)>>,
      <<SaleItem("X", 2, 2, 1), SaleItem("A", 1, 3, 2)>>,
      <<SaleItem("B", 0, 2, 1)>> }

\* the lines of the orders a caller submits or the store already holds
POInputs ==
    { <<POItem("A", 1, 2)>>,
      <<POItem("A", 1, 2), POItem("A", 2, 0)>>,
      <<POItem("B", 2, 3), POItem("X", 1, 1)>> }

Outcomes == {"ok", "err", "throw"}   \* resolved, resolved with {error}, rejected

----------------------------------------------------------------------------
(* Numbers *)

\* Amounts and prices are JavaScript numbers: binary floating point, every
\* sum, difference and product rounded to the nearest number the significand
\* can hold, ties to even.  The significand is scaled down from 53 bits to 4,
\* and the numbers to whole units: the integers below Significand are exact.
Significand == 16

RECURSIVE Ulp(_)
\* the spacing of the representable numbers around n >= 0
Ulp(n) == IF n < Significand THEN 1 ELSE 2 * Ulp(n \div 2)

RoundTo(n, u) ==
    LET q == n \div u
        r == n % u
    IN IF 2 * r < u THEN q * u
       ELSE IF 2 * r > u THEN (q + 1) * u
       ELSE IF q % 2 = 0 THEN q * u ELSE (q + 1) * u

\* the number the exact result x is rounded to
Fl(x) == IF x < 0 THEN 0 - RoundTo(0 - x, Ulp(0 - x)) ELSE RoundTo(x, Ulp(x))

\* a + b, a - b and a * b of the code
Plus(a, b) == Fl(a + b)
Minus(a, b) == Fl(a - b)
Times(a, b) == Fl(a * b)

----------------------------------------------------------------------------
(* Pure helpers *)

RECURSIVE TotalAmountPerLine(_)
\* the slip of adding each line's price once, whatever its quantity
TotalAmountPerLine(items) ==
    IF items = <<>> THEN 0
    ELSE TotalAmountPerLine(SubSeq(items, 1, Len(items) - 1))
         + items[Len(items)].priceAtSale

RECURSIVE TotalAmount(_)
\* items.reduce((sum, item) => sum + (item.quantity * item.priceAtSale), 0)
TotalAmount(items) ==
    IF items = <<>> THEN 0
    ELSE Plus(TotalAmount(SubSeq(items, 1, Len(items) - 1)),
              Times(items[Len(items)].quantity, items[Len(items)].priceAtSale))

RECURSIVE TotalCostOfSale(_)
\* items.reduce((sum, item) => sum + (item.quantity * item.costAtSale), 0)
TotalCostOfSale(items) ==
    IF items = <<>> THEN 0
    ELSE Plus(TotalCostOfSale(SubSeq(items, 1, Len(items) - 1)),
              Times(items[Len(items)].quantity, items[Len(items)].costAtSale))

RECURSIVE TotalCostPerLine(_)
\* the slip of adding each line's unit cost once, whatever its quantity
TotalCostPerLine(items) ==
    IF items = <<>> THEN 0
    ELSE TotalCostPerLine(SubSeq(items, 1, Len(items) - 1))
         + items[Len(items)].unitCost

RECURSIVE TotalCostOfOrder(_)
\* orderItems.reduce((acc, item) => acc + (item.quantity * item.unitCost), 0)
TotalCostOfOrder(items) ==
    IF items = <<>> THEN 0
    ELSE Plus(TotalCostOfOrder(SubSeq(items, 1, Len(items) - 1)),
              Times(items[Len(items)].quantity, items[Len(items)].unitCost))

NewSale(id, items) ==
    [id |-> id, items |-> items, timestamp |-> clock.utc,
     totalAmount |-> TotalAmount(items),
     totalProfit |-> Minus(TotalAmount(items), TotalCostOfSale(items))]

RECURSIVE QtyFor(_, _)
\* total quantity the lines of `items` carry for item id
QtyFor(items, id) ==
    IF items = <<>> THEN 0
    ELSE (IF Head(items).itemId = id THEN Head(items).quantity ELSE 0)
         + QtyFor(Tail(items), id)

\* the slip of lowering every line from the quantity before the sale: of two
\* lines for one item only the last one counts
DecrementFromSnapshot(inv, items) ==
    [id \in DOMAIN inv |->
        LET lines == { i \in DOMAIN items : items[i].itemId = id } IN
        IF lines = {} THEN inv[id]
        ELSE inv[id] - items[CHOOSE i \in lines : \A j \in lines : j <= i].quantity]

RECURSIVE DecrementAll(_, _)
\* items.forEach over newInventory: each line lowers its product, if found
DecrementAll(inv, items) ==
    IF items = <<>> THEN inv
    ELSE LET it == Head(items)
             nxt == IF it.itemId \in DOMAIN inv
                    THEN [inv EXCEPT ![it.itemId] = @ - it.quantity]
                    ELSE inv
         IN DecrementAll(nxt, Tail(items))

\* first line at or after `from` whose item is found in inv; Len+1 when none
NextFound(items, inv, from) ==
    LET hits == { i \in from..Len(items) : items[i].itemId \in DOMAIN inv }
    IN IF hits = {} THEN Len(items) + 1
       ELSE CHOOSE i \in hits : \A j \in hits : i <= j

RECURSIVE SortDesc(_)
\* .order(<creation time>, { ascending: false }): newest (largest id) first
SortDesc(S) ==
    IF S = {} THEN <<>>
    ELSE LET m == CHOOSE r \in S : \A o \in S : o.id <= r.id
         IN <<m>> \o SortDesc(S \ {m})

\* prev.map(p => p.id === id ? { ...p, status } : p)
SetStatus(pos, id, status) ==
    [i \in DOMAIN pos |-> IF pos[i].id = id THEN [pos[i] EXCEPT !.status = status] ELSE pos[i]]

----------------------------------------------------------------------------
(* Handler invocations *)

NoOp ==
    [kind |-> "none", pc |-> "done", resp |-> "none", data |-> <<>>, rec |-> <<>>,
     id |-> 0, items |-> <<>>, status |-> "", poStatus |-> "",
     inv |-> <<>>, upd |-> <<>>, idx |-> 0, item |-> "", qty |-> 0,
     found |-> TRUE, failed |-> FALSE, alerted |-> FALSE, refetched |-> FALSE,
     fetchOk |-> TRUE, alone |-> TRUE, quietAtCall |-> TRUE]

\* Fields of an invocation.  kind, pc: the handler and the await it is at;
\* resp, data: the answer to that await ("none" while the request is out);
\* id, status, items: the arguments; rec: the newSale or newPO the handler
\* built; inv, poStatus: the `inventory` and the
\* `po.status` of the render the handler was called from; upd, idx, item,
\* qty: updatedInventory, the loop position and the update being awaited.
\* Bookkeeping for the claims: found (the order was found), failed (a remote
\* write did not succeed), alerted (alert() was shown), refetched (fetchData
\* was called from catch), fetchOk (that fetchData read every table), alone
\* (no other handler was in flight during this one), quietAtCall.

InFlight(o) == o.pc # "done"
Quiet == \A k \in DOMAIN ops : ~InFlight(ops[k])
NewId == Len(ops) + 1

\* the call of a handler: the invocation joins ops; handlers already in
\* flight are no longer alone
Call(o) ==
    ops' = Append([k \in DOMAIN ops |->
                      IF InFlight(ops[k]) THEN [ops[k] EXCEPT !.alone = FALSE] ELSE ops[k]],
                  [o EXCEPT !.alone = Quiet, !.quietAtCall = Quiet])

CanCall == Len(ops) < MaxOps

Pending(k, pc) == k \in DOMAIN ops /\ ops[k].pc = pc /\ ops[k].resp = "none"
Arrived(k, pc) == k \in DOMAIN ops /\ ops[k].pc = pc /\ ops[k].resp # "none"

SetOp(k, o) == ops' = [ops EXCEPT ![k] = o]

\* the store answers the pending request of invocation k
Answer(k, outcome, data) ==
    SetOp(k, [ops[k] EXCEPT !.resp = outcome, !.data = data])

Order(id, status, items) ==
    [id |-> id, status |-> status, items |-> items, totalCost |-> TotalCostOfOrder(items)]

\* the order the store holds when the session starts: item A on two lines and
\* a line for an item that is not in inventory
InitialOrders ==
    { Order(0, "ordered", <<POItem("A", 1, 2), POItem("X", 1, 1), POItem("A", 2, 0)>>) }

InitialExpenses == <<[id |-> 0, amount |-> 4]>>

----------------------------------------------------------------------------
(* fetchData *)

FetchPcs == {"selInventory", "selSales", "selExpenses", "selPOs"}

\* select('*') of the table a fetch step reads, in the order it asks for
Table(pc) ==
    CASE pc = "selInventory" -> dbInventory
      [] pc = "selSales" -> SortDesc(dbSales)
      [] pc = "selExpenses" -> dbExpenses
      [] pc = "selPOs" -> SortDesc(dbPurchaseOrders)

\* fetchData(): setLoading(true), then the first select is awaited
StartFetch(o) == [o EXCEPT !.pc = "selInventory", !.resp = "none", !.data = <<>>,
                           !.refetched = TRUE, !.fetchOk = TRUE]

\* finally { setLoading(false) }
EndFetch(o, ok) == [o EXCEPT !.pc = "done", !.resp = "none", !.data = <<>>,
                             !.fetchOk = ok]

NextSelect(o, pc) == [o EXCEPT !.pc = pc, !.resp = "none", !.data = <<>>]

DbSelect(k, outcome) ==
    /\ \E pc \in FetchPcs : Pending(k, pc)
    /\ Answer(k, outcome, IF outcome = "ok" THEN Table(ops[k].pc) ELSE <<>>)
    /\ UNCHANGED <<local, remote>>
    /\ UNCHANGED screen

FetchResume(k) ==
    /\ UNCHANGED screen
    /\ \/ /\ Arrived(k, "selInventory")
          /\ IF ops[k].resp = "ok"
             THEN /\ inventory' = ops[k].data
                  /\ SetOp(k, NextSelect(ops[k], "selSales"))
                  /\ UNCHANGED loading
             ELSE /\ SetOp(k, EndFetch(ops[k], FALSE))
                  /\ loading' = FALSE
                  /\ UNCHANGED inventory
          /\ UNCHANGED <<sales, expenses, purchaseOrders, adjustItem, remote>>
       \/ /\ Arrived(k, "selSales")
          /\ IF ops[k].resp = "ok"
             THEN /\ sales' = ops[k].data
                  /\ SetOp(k, NextSelect(ops[k], "selExpenses"))
                  /\ UNCHANGED loading
             ELSE /\ SetOp(k, EndFetch(ops[k], FALSE))
                  /\ loading' = FALSE
                  /\ UNCHANGED sales
          /\ UNCHANGED <<inventory, expenses, purchaseOrders, adjustItem, remote>>
       \/ /\ Arrived(k, "selExpenses")
          /\ IF ops[k].resp = "ok"
             THEN /\ expenses' = ops[k].data
                  /\ SetOp(k, NextSelect(ops[k], "selPOs"))
                  /\ UNCHANGED loading
             ELSE /\ SetOp(k, EndFetch(ops[k], FALSE))
                  /\ loading' = FALSE
                  /\ UNCHANGED expenses
          /\ UNCHANGED <<inventory, sales, purchaseOrders, adjustItem, remote>>
       \/ /\ Arrived(k, "selPOs")
          \* poError only warns; a rejected call lands in catch: neither sets the list
          /\ purchaseOrders' = IF ops[k].resp = "ok" THEN ops[k].data ELSE purchaseOrders
          /\ SetOp(k, EndFetch(ops[k], ops[k].resp = "ok"))
          /\ loading' = FALSE
          /\ UNCHANGED <<inventory, sales, expenses, adjustItem, remote>>

NoItem == [id |-> "", quantity |-> 0]

\* catch (err) { console.error; alert(...); fetchData(); }  While loading is
\* set App renders no screen, so InventoryManager's state is gone.
Catch(k) ==
    /\ SetOp(k, StartFetch([ops[k] EXCEPT !.alerted = TRUE]))
    /\ loading' = TRUE
    /\ adjustItem' = NoItem

----------------------------------------------------------------------------
(* handleCompleteSale *)

\* the slip of asking the store for an update on every line, found or not
\* (currentItem?.quantity ?? 0)
SaleUpdateEveryLine(o, from) ==
    IF from > Len(o.items)
    THEN [o EXCEPT !.pc = "done", !.resp = "none", !.idx = 0, !.qty = 0]
    ELSE LET id == o.items[from].itemId
             current == IF id \in DOMAIN o.inv THEN o.inv[id] ELSE 0
         IN [o EXCEPT !.pc = "updInventory", !.resp = "none", !.idx = from,
                      !.item = id, !.qty = current - o.items[from].quantity]

\* the inventory update the loop issues next, from line `from` on; none left: return
SaleNextUpdate(o, from) ==
    LET i == NextFound(o.items, o.inv, from) IN
    IF i > Len(o.items)
    THEN [o EXCEPT !.pc = "done", !.resp = "none", !.idx = 0, !.qty = 0]
    ELSE [o EXCEPT !.pc = "updInventory", !.resp = "none", !.idx = i,
                   !.item = o.items[i].itemId,
                   !.qty = o.inv[o.items[i].itemId] - o.items[i].quantity]

HandleCompleteSale(items) ==
    /\ CanCall
    /\ ~loading
    /\ inventory' = DecrementAll(inventory, items)
    /\ sales' = <<NewSale(NewId, items)>> \o sales
    /\ Call([NoOp EXCEPT !.kind = "sale", !.pc = "insSale", !.items = items,
                         !.inv = inventory, !.rec = NewSale(NewId, items)])
    /\ UNCHANGED <<expenses, purchaseOrders, loading, adjustItem, remote>>
    /\ UNCHANGED screen

DbInsertSale(k, outcome) ==
    /\ Pending(k, "insSale")
    /\ dbSales' = IF outcome = "ok" THEN dbSales \cup {ops[k].rec} ELSE dbSales
    /\ SetOp(k, [ops[k] EXCEPT !.resp = outcome, !.failed = @ \/ outcome # "ok"])
    /\ UNCHANGED <<local, dbInventory, dbExpenses, dbPurchaseOrders>>
    /\ UNCHANGED screen

\* .from('inventory').update({ quantity }).eq('id', id): rows that match change
DbUpdateInventory(k, outcome) ==
    /\ \E pc \in {"updInventory", "updItem"} : Pending(k, pc)
    /\ dbInventory' = IF outcome = "ok" /\ ops[k].item \in DOMAIN dbInventory
                      THEN [dbInventory EXCEPT ![ops[k].item] = ops[k].qty]
                      ELSE dbInventory
    /\ SetOp(k, [ops[k] EXCEPT !.resp = outcome, !.failed = @ \/ outcome # "ok"])
    /\ UNCHANGED <<local, dbSales, dbExpenses, dbPurchaseOrders>>
    /\ UNCHANGED screen

\* the slip of going on to the inventory updates whatever the insert answered
SaleResumeUncheckedInsert(k) ==
    /\ ops[k].kind = "sale"
    /\ \/ /\ Arrived(k, "insSale")
          /\ SetOp(k, SaleNextUpdate(ops[k], 1))
          /\ UNCHANGED <<loading, adjustItem>>
       \/ /\ Arrived(k, "updInventory")
          /\ IF ops[k].resp = "throw"
             THEN Catch(k)
             ELSE SetOp(k, SaleNextUpdate(ops[k], ops[k].idx + 1))
                  /\ UNCHANGED <<loading, adjustItem>>
    /\ UNCHANGED <<inventory, sales, expenses, purchaseOrders, remote>>
    /\ UNCHANGED screen

SaleResume(k) ==
    /\ ops[k].kind = "sale"
    /\ \/ /\ Arrived(k, "insSale")
          /\ IF ops[k].resp = "ok"     \* if (saleError) throw saleError
             THEN SetOp(k, SaleNextUpdate(ops[k], 1)) /\ UNCHANGED <<loading, adjustItem>>
             ELSE Catch(k)
       \/ /\ Arrived(k, "updInventory")
          /\ IF ops[k].resp = "throw"  \* the update's { error } is not looked at
             THEN Catch(k)
             ELSE SetOp(k, SaleNextUpdate(ops[k], ops[k].idx + 1))
                  /\ UNCHANGED <<loading, adjustItem>>
    /\ UNCHANGED <<inventory, sales, expenses, purchaseOrders, remote>>
    /\ UNCHANGED screen

----------------------------------------------------------------------------
(* PurchaseOrdersManager.handleSubmitOrder and handleCreatePO *)

\* the slip of booking the ordered quantities into stock when the order is
\* created
HandleCreatePOStocking(po) ==
    /\ CanCall
    /\ ~loading
    /\ purchaseOrders' = <<[po EXCEPT !.id = NewId]>> \o purchaseOrders
    /\ inventory' = [id \in DOMAIN inventory |-> inventory[id] + QtyFor(po.items, id)]
    /\ Call([NoOp EXCEPT !.kind = "createPO", !.pc = "insPO", !.id = NewId,
                         !.items = po.items, !.rec = [po EXCEPT !.id = NewId]])
    /\ UNCHANGED <<sales, expenses, loading, adjustItem, remote>>
    /\ UNCHANGED screen

\* setPurchaseOrders(prev => [newPO, ...prev]); the insert is awaited
HandleCreatePO(po) ==
    /\ CanCall
    /\ ~loading
    /\ purchaseOrders' = <<[po EXCEPT !.id = NewId]>> \o purchaseOrders
    /\ Call([NoOp EXCEPT !.kind = "createPO", !.pc = "insPO", !.id = NewId,
                         !.items = po.items, !.rec = [po EXCEPT !.id = NewId]])
    /\ UNCHANGED <<inventory, sales, expenses, loading, adjustItem, remote>>
    /\ UNCHANGED screen

\* a supplier name and at least one line are required; the order goes to
\* onCreateOrder with its totalCost and status 'ordered'
HandleSubmitOrder(supplier, orderItems) ==
    /\ supplier # "" /\ orderItems # <<>>
    /\ HandleCreatePO(Order(0, "ordered", orderItems))

DbInsertPO(k, outcome) ==
    /\ Pending(k, "insPO")
    /\ dbPurchaseOrders' = IF outcome = "ok" THEN dbPurchaseOrders \cup {ops[k].rec}
                           ELSE dbPurchaseOrders
    /\ SetOp(k, [ops[k] EXCEPT !.resp = outcome, !.failed = @ \/ outcome # "ok"])
    /\ UNCHANGED <<local, dbInventory, dbSales, dbExpenses>>
    /\ UNCHANGED screen

CreatePOResume(k) ==
    /\ Arrived(k, "insPO")
    /\ IF ops[k].resp = "ok"
       THEN SetOp(k, [ops[k] EXCEPT !.pc = "done", !.resp = "none"])
            /\ UNCHANGED <<loading, adjustItem>>
       ELSE Catch(k)
    /\ UNCHANGED <<inventory, sales, expenses, purchaseOrders, remote>>
    /\ UNCHANGED screen

----------------------------------------------------------------------------
(* handleUpdatePOStatus *)

\* the slip of falling back to the first order when none carries the id
FindOrderOrFirst(pos, id) ==
    LET hits == { i \in DOMAIN pos : pos[i].id = id } IN
    IF hits = {} THEN (IF pos = <<>> THEN 0 ELSE 1)
    ELSE CHOOSE i \in hits : \A j \in hits : i <= j

\* purchaseOrders.find(p => p.id === id)
FindOrder(pos, id) ==
    LET hits == { i \in DOMAIN pos : pos[i].id = id } IN
    IF hits = {} THEN 0 ELSE CHOOSE i \in hits : \A j \in hits : i <= j

HandleUpdatePOStatus(id, status) ==
    /\ CanCall
    /\ ~loading
    /\ LET i == FindOrder(purchaseOrders, id) IN
       IF i = 0
       THEN /\ Call([NoOp EXCEPT !.kind = "updatePO", !.id = id, !.status = status,
                                 !.found = FALSE])
            /\ UNCHANGED purchaseOrders
       ELSE /\ purchaseOrders' = SetStatus(purchaseOrders, id, status)
            /\ Call([NoOp EXCEPT !.kind = "updatePO", !.pc = "updStatus", !.id = id,
                                 !.status = status, !.poStatus = purchaseOrders[i].status,
                                 !.items = purchaseOrders[i].items, !.inv = inventory])
    /\ UNCHANGED <<inventory, sales, expenses, loading, adjustItem, remote>>
    /\ UNCHANGED screen

\* the handler of the render invocation k was called from is called once more
\* while k is in flight: it reads the same purchaseOrders and inventory as k
\* did (po.status, po.items and the captured inventory are those of k)
HandleUpdatePOStatusAgain(k) ==
    /\ CanCall
    /\ k \in DOMAIN ops
    /\ ops[k].kind = "updatePO" /\ ops[k].found /\ InFlight(ops[k])
    /\ purchaseOrders' = SetStatus(purchaseOrders, ops[k].id, ops[k].status)
    /\ Call([NoOp EXCEPT !.kind = "updatePO", !.pc = "updStatus", !.id = ops[k].id,
                         !.status = ops[k].status, !.poStatus = ops[k].poStatus,
                         !.items = ops[k].items, !.inv = ops[k].inv])
    /\ UNCHANGED <<inventory, sales, expenses, loading, adjustItem, remote>>
    /\ UNCHANGED screen

\* .from('purchase_orders').update({ status }).eq('id', id)
DbUpdatePOStatus(k, outcome) ==
    /\ Pending(k, "updStatus")
    /\ dbPurchaseOrders' =
          IF outcome = "ok"
          THEN { IF o.id = ops[k].id THEN [o EXCEPT !.status = ops[k].status] ELSE o :
                    o \in dbPurchaseOrders }
          ELSE dbPurchaseOrders
    /\ SetOp(k, [ops[k] EXCEPT !.resp = outcome, !.failed = @ \/ outcome # "ok"])
    /\ UNCHANGED <<local, dbInventory, dbSales, dbExpenses>>
    /\ UNCHANGED screen

\* the slip of reading the quantity from the captured inventory instead of
\* updatedInventory: a second line for an item forgets the first
RestockFromSnapshot(k, o, from) ==
    LET i == NextFound(o.items, o.upd, from) IN
    IF i > Len(o.items)
    THEN /\ inventory' = o.upd
         /\ SetOp(k, [o EXCEPT !.pc = "done", !.resp = "none", !.idx = 0, !.qty = 0])
    ELSE LET id == o.items[i].itemId
             newQty == o.inv[id] + o.items[i].quantity
         IN /\ SetOp(k, [o EXCEPT !.pc = "updInventory", !.resp = "none", !.idx = i,
                                  !.item = id, !.qty = newQty,
                                  !.upd = [o.upd EXCEPT ![id] = newQty]])
            /\ UNCHANGED inventory

\* the variant that adds what was ordered to the inventory of the moment
\* (setInventory(prev => ...)) instead of replacing it by updatedInventory
RestockOntoCurrent(k, o, from) ==
    LET i == NextFound(o.items, o.upd, from) IN
    IF i > Len(o.items)
    THEN /\ inventory' = [id \in DOMAIN inventory |->
                             IF id \in DOMAIN o.upd
                             THEN inventory[id] + (o.upd[id] - o.inv[id])
                             ELSE inventory[id]]
         /\ SetOp(k, [o EXCEPT !.pc = "done", !.resp = "none", !.idx = 0, !.qty = 0])
    ELSE LET id == o.items[i].itemId
             newQty == o.upd[id] + o.items[i].quantity
         IN /\ SetOp(k, [o EXCEPT !.pc = "updInventory", !.resp = "none", !.idx = i,
                                  !.item = id, !.qty = newQty,
                                  !.upd = [o.upd EXCEPT ![id] = newQty]])
            /\ UNCHANGED inventory

\* the for loop over po.items from line `from` on: the next line whose item is
\* in updatedInventory is added there and its update awaited; after the last
\* line, setInventory(updatedInventory)
Restock(k, o, from) ==
    LET i == NextFound(o.items, o.upd, from) IN
    IF i > Len(o.items)
    THEN /\ inventory' = o.upd
         /\ SetOp(k, [o EXCEPT !.pc = "done", !.resp = "none", !.idx = 0, !.qty = 0])
    ELSE LET id == o.items[i].itemId
             newQty == o.upd[id] + o.items[i].quantity
         IN /\ SetOp(k, [o EXCEPT !.pc = "updInventory", !.resp = "none", !.idx = i,
                                  !.item = id, !.qty = newQty,
                                  !.upd = [o.upd EXCEPT ![id] = newQty]])
            /\ UNCHANGED inventory

\* the slip of restocking on every 'received', whatever the order's status was
RestockOnEveryReceived(o) == o.status = "received"

\* if (status === 'received' && po.status !== 'received')
ShouldRestock(o) == o.status = "received" /\ o.poStatus # "received"

UpdatePOResume(k) ==
    /\ ops[k].kind = "updatePO"
    /\ \/ /\ Arrived(k, "updStatus")
          /\ IF ops[k].resp # "ok"                        \* if (error) throw error
             THEN Catch(k) /\ UNCHANGED inventory
             ELSE /\ IF ShouldRestock(ops[k])
                     THEN Restock(k, [ops[k] EXCEPT !.upd = ops[k].inv], 1)
                     ELSE /\ SetOp(k, [ops[k] EXCEPT !.pc = "done", !.resp = "none"])
                          /\ UNCHANGED inventory
                  /\ UNCHANGED <<loading, adjustItem>>
       \/ /\ Arrived(k, "updInventory")
          /\ IF ops[k].resp = "throw"     \* the update's { error } is not looked at
             THEN Catch(k) /\ UNCHANGED inventory
             ELSE Restock(k, ops[k], ops[k].idx + 1) /\ UNCHANGED <<loading, adjustItem>>
    /\ UNCHANGED <<sales, expenses, purchaseOrders, remote>>
    /\ UNCHANGED screen

----------------------------------------------------------------------------
(* InventoryManager's stock adjustment and handleUpdateItem *)

\* what parseInt(adjustQty) gives: NaN, or an integer
Parsed(n) == [isNaN |-> FALSE, val |-> n]
NaN == [isNaN |-> TRUE, val |-> 0]
AdjustInputs == {NaN, Parsed(-1), Parsed(2)}
AdjustmentTypes == {"add", "remove", "set"}

Max(a, b) == IF a >= b THEN a ELSE b

\* the slip of removing without the floor at zero
ResultingQtyUnclamped(item, adjustmentType, parsed) ==
    LET current == item.quantity
        input == IF parsed.isNaN THEN 0 ELSE parsed.val
    IN IF item = NoItem THEN 0
       ELSE IF adjustmentType = "add" THEN current + input
       ELSE IF adjustmentType = "remove" THEN current - input
       ELSE input

\* parseInt(adjustQty) || 0, then the new quantity by adjustment type
GetResultingQty(item, adjustmentType, parsed) ==
    LET current == item.quantity
        input == IF parsed.isNaN THEN 0 ELSE parsed.val
    IN IF item = NoItem THEN 0
       ELSE IF adjustmentType = "add" THEN current + input
       ELSE IF adjustmentType = "remove" THEN Max(0, current - input)
       ELSE input

\* openAdjustModal(item), from a row of the rendered inventory
OpenAdjustModal(id) ==
    /\ ~loading
    /\ id \in DOMAIN inventory
    /\ adjustItem' = [id |-> id, quantity |-> inventory[id]]
    /\ UNCHANGED <<inventory, sales, expenses, purchaseOrders, loading, remote, ops>>
    /\ UNCHANGED screen

\* setInventory(prev => prev.map(item => item.id === id ? {...item, ...updates} : item))
HandleUpdateItem(id, quantity) ==
    /\ CanCall
    /\ ~loading
    /\ inventory' = [i \in DOMAIN inventory |-> IF i = id THEN quantity ELSE inventory[i]]
    /\ Call([NoOp EXCEPT !.kind = "updateItem", !.pc = "updItem", !.item = id,
                         !.qty = quantity, !.inv = inventory])
    /\ UNCHANGED <<sales, expenses, purchaseOrders, loading, remote>>
    /\ UNCHANGED screen

\* an input that is not a number or is negative is turned away with a notice;
\* otherwise onUpdate(adjustItem.id, { quantity: finalQty }); closeAdjustModal()
HandleStockAdjustment(adjustmentType, parsed) ==
    /\ adjustItem # NoItem
    /\ ~(parsed.isNaN \/ parsed.val < 0)
    /\ HandleUpdateItem(adjustItem.id, GetResultingQty(adjustItem, adjustmentType, parsed))
    /\ adjustItem' = NoItem

\* the value of a decimal digit, -1 for any other character
Digit(c) ==
    CASE c = "0" -> 0 [] c = "1" -> 1 [] c = "2" -> 2 [] c = "3" -> 3 [] c = "4" -> 4
      [] c = "5" -> 5 [] c = "6" -> 6 [] c = "7" -> 7 [] c = "8" -> 8 [] c = "9" -> 9
      [] OTHER -> 0 - 1

RECURSIVE LeadingDigits(_, _)
\* the value of the digits text begins with, after acc
LeadingDigits(text, acc) ==
    IF text = <<>> \/ Digit(Head(text)) < 0 THEN acc
    ELSE LeadingDigits(Tail(text), acc * 10 + Digit(Head(text)))

\* parseInt(text), text a sequence of characters: an optional sign, then the
\* digits up to the first character that is not one; NaN when there is none
ParseInt(text) ==
    LET signed == text # <<>> /\ Head(text) \in {"-", "+"}
        body == IF signed THEN Tail(text) ELSE text
    IN IF body = <<>> \/ Digit(Head(body)) < 0 THEN NaN
       ELSE IF Head(text) = "-" THEN Parsed(0 - LeadingDigits(body, 0))
       ELSE Parsed(LeadingDigits(body, 0))

\* what can stand in the quantity field, an <input type="number" min="0">,
\* with the number the text denotes: nothing, -1, 2, and 10 written 1e1
AdjustTexts ==
    { [text |-> <<>>, isNumber |-> FALSE, number |-> 0],
      [text |-> <<"-", "1">>, isNumber |-> TRUE, number |-> 0 - 1],
      [text |-> <<"2">>, isNumber |-> TRUE, number |-> 2],
      [text |-> <<"1", "e", "1">>, isNumber |-> TRUE, number |-> 10] }

\* handleStockAdjustment with adjustQty in the field: the alert and return on
\* an input that parses to NaN or below zero, else the update above
SubmitAdjustForm(adjustmentType, adjustQty) ==
    LET inputVal == ParseInt(adjustQty) IN
    IF inputVal.isNaN \/ inputVal.val < 0
    THEN /\ adjustItem # NoItem
         /\ CanCall
         /\ Call([NoOp EXCEPT !.kind = "adjust", !.alerted = TRUE])
         /\ UNCHANGED <<local, remote>>
         /\ UNCHANGED screen
    ELSE HandleStockAdjustment(adjustmentType, inputVal)

\* InventoryManager.handleSubmit with editingId set: onUpdate(editingId, formData)
HandleSubmitEdit(id, quantity) ==
    /\ HandleUpdateItem(id, quantity)
    /\ UNCHANGED adjustItem

UpdateItemResume(k) ==
    /\ Arrived(k, "updItem")
    /\ IF ops[k].resp = "ok"                              \* if (error) throw error
       THEN SetOp(k, [ops[k] EXCEPT !.pc = "done", !.resp = "none"])
            /\ UNCHANGED <<loading, adjustItem>>
       ELSE Catch(k)
    /\ UNCHANGED <<inventory, sales, expenses, purchaseOrders, remote>>
    /\ UNCHANGED screen

----------------------------------------------------------------------------
(* handleAddItem, handleDeleteItem, handleAddExpense, handleDeleteExpense *)

\* crypto.randomUUID(): an id no record carries yet, one per invocation
FreshItemIds == <<"C", "D", "E", "F">>

\* setInventory(prev => [...prev, newItem]); the insert is awaited
HandleAddItem(quantity) ==
    /\ CanCall
    /\ ~loading
    /\ LET id == FreshItemIds[NewId] IN
       /\ inventory' = [i \in DOMAIN inventory \cup {id} |->
                           IF i = id THEN quantity ELSE inventory[i]]
       /\ Call([NoOp EXCEPT !.kind = "addItem", !.pc = "insItem", !.item = id,
                            !.qty = quantity, !.inv = inventory])
    /\ UNCHANGED <<sales, expenses, purchaseOrders, loading, adjustItem, remote>>
    /\ UNCHANGED screen

DbInsertItem(k, outcome) ==
    /\ Pending(k, "insItem")
    /\ dbInventory' = IF outcome = "ok"
                      THEN [i \in DOMAIN dbInventory \cup {ops[k].item} |->
                               IF i = ops[k].item THEN ops[k].qty ELSE dbInventory[i]]
                      ELSE dbInventory
    /\ SetOp(k, [ops[k] EXCEPT !.resp = outcome, !.failed = @ \/ outcome # "ok"])
    /\ UNCHANGED <<local, dbSales, dbExpenses, dbPurchaseOrders>>
    /\ UNCHANGED screen

\* window.confirm answered yes; setInventory(prev => prev.filter(item => item.id !== id))
HandleDeleteItem(id) ==
    /\ CanCall
    /\ ~loading
    /\ inventory' = [i \in DOMAIN inventory \ {id} |-> inventory[i]]
    /\ Call([NoOp EXCEPT !.kind = "deleteItem", !.pc = "delItem", !.item = id,
                         !.inv = inventory])
    /\ UNCHANGED <<sales, expenses, purchaseOrders, loading, adjustItem, remote>>
    /\ UNCHANGED screen

\* the slip of deleting, with the item, the sales that name it
DbDeleteItemWithSales(k, outcome) ==
    /\ Pending(k, "delItem")
    /\ dbInventory' = IF outcome = "ok"
                      THEN [i \in DOMAIN dbInventory \ {ops[k].item} |-> dbInventory[i]]
                      ELSE dbInventory
    /\ dbSales' = IF outcome = "ok"
                  THEN { r \in dbSales :
                            \A i \in DOMAIN r.items : r.items[i].itemId # ops[k].item }
                  ELSE dbSales
    /\ SetOp(k, [ops[k] EXCEPT !.resp = outcome, !.failed = @ \/ outcome # "ok"])
    /\ UNCHANGED <<local, dbExpenses, dbPurchaseOrders>>
    /\ UNCHANGED screen

\* .from('inventory').delete().eq('id', id)
DbDeleteItem(k, outcome) ==
    /\ Pending(k, "delItem")
    /\ dbInventory' = IF outcome = "ok"
                      THEN [i \in DOMAIN dbInventory \ {ops[k].item} |-> dbInventory[i]]
                      ELSE dbInventory
    /\ SetOp(k, [ops[k] EXCEPT !.resp = outcome, !.failed = @ \/ outcome # "ok"])
    /\ UNCHANGED <<local, dbSales, dbExpenses, dbPurchaseOrders>>
    /\ UNCHANGED screen

\* setExpenses(prev => [newExpense, ...prev]); the insert is awaited
HandleAddExpense(amount) ==
    /\ CanCall
    /\ ~loading
    /\ expenses' = <<[id |-> NewId, amount |-> amount]>> \o expenses
    /\ Call([NoOp EXCEPT !.kind = "addExpense", !.pc = "insExpense", !.id = NewId,
                         !.rec = [id |-> NewId, amount |-> amount]])
    /\ UNCHANGED <<inventory, sales, purchaseOrders, loading, adjustItem, remote>>
    /\ UNCHANGED screen

DbInsertExpense(k, outcome) ==
    /\ Pending(k, "insExpense")
    /\ dbExpenses' = IF outcome = "ok" THEN <<ops[k].rec>> \o dbExpenses ELSE dbExpenses
    /\ SetOp(k, [ops[k] EXCEPT !.resp = outcome, !.failed = @ \/ outcome # "ok"])
    /\ UNCHANGED <<local, dbInventory, dbSales, dbPurchaseOrders>>
    /\ UNCHANGED screen

\* e => e.id !== id, over a list
WithoutId(list, id) == SelectSeq(list, LAMBDA e : e.id # id)

\* window.confirm answered yes; setExpenses(prev => prev.filter(e => e.id !== id))
HandleDeleteExpense(id) ==
    /\ CanCall
    /\ ~loading
    /\ expenses' = WithoutId(expenses, id)
    /\ Call([NoOp EXCEPT !.kind = "deleteExpense", !.pc = "delExpense", !.id = id])
    /\ UNCHANGED <<inventory, sales, purchaseOrders, loading, adjustItem, remote>>
    /\ UNCHANGED screen

DbDeleteExpense(k, outcome) ==
    /\ Pending(k, "delExpense")
    /\ dbExpenses' = IF outcome = "ok" THEN WithoutId(dbExpenses, ops[k].id) ELSE dbExpenses
    /\ SetOp(k, [ops[k] EXCEPT !.resp = outcome, !.failed = @ \/ outcome # "ok"])
    /\ UNCHANGED <<local, dbInventory, dbSales, dbPurchaseOrders>>
    /\ UNCHANGED screen

\* catch (err) { console.error(...); fetchData(); }: handleDeleteExpense shows
\* no alert
CatchWithoutAlert(k) ==
    /\ SetOp(k, StartFetch(ops[k]))
    /\ loading' = TRUE
    /\ adjustItem' = NoItem

\* the writes of these four handlers: on success the handler returns, on
\* { error } or a rejection it lands in its catch
ItemWritePcs == {"insItem", "delItem", "insExpense"}

ItemOrExpenseResume(k) ==
    /\ \/ /\ \E pc \in ItemWritePcs : Arrived(k, pc)
          /\ IF ops[k].resp = "ok"                        \* if (error) throw error
             THEN SetOp(k, [ops[k] EXCEPT !.pc = "done", !.resp = "none"])
                  /\ UNCHANGED <<loading, adjustItem>>
             ELSE Catch(k)
       \/ /\ Arrived(k, "delExpense")
          /\ IF ops[k].resp = "ok"
             THEN SetOp(k, [ops[k] EXCEPT !.pc = "done", !.resp = "none"])
                  /\ UNCHANGED <<loading, adjustItem>>
             ELSE CatchWithoutAlert(k)
    /\ UNCHANGED <<inventory, sales, expenses, purchaseOrders, remote>>
    /\ UNCHANGED screen

----------------------------------------------------------------------------
(* The clock, and Dashboard's chartData *)

\* Instants are whole hours, counted in UTC from midnight of day 0.  A time
\* zone is the offset of local time from UTC, in hours, before and from the
\* instant `at` on (a daylight-saving change; none when the two are equal).
FixedZone(offset) == [before |-> offset, after |-> offset, at |-> 0]
Offset(zone, utc) == IF utc < zone.at THEN zone.before ELSE zone.after

\* the local wall-clock hour count of an instant, and back: a local hour a
\* change repeats is read as its first occurrence, one it skips is moved
\* within the same day
LocalOf(zone, utc) == utc + Offset(zone, utc)
UtcOfLocal(zone, localHours) ==
    IF localHours - zone.before < zone.at
    THEN localHours - zone.before
    ELSE localHours - zone.after

\* d.toISOString().split('T')[0]: the UTC calendar date, as a day number
IsoDate(utc) == utc \div 24

\* const d = new Date(); d.setDate(d.getDate() - i): the same local time of
\* day, i local calendar days earlier
SetDateBack(c, i) == UtcOfLocal(c.zone, LocalOf(c.zone, c.utc) - 24 * i)

\* new Array(7)
ChartDays == 7

\* last7Days: i = 0..6 mapped to dates, then reversed
Last7Days(c) == [j \in 1..ChartDays |-> IsoDate(SetDateBack(c, ChartDays - j))]

RECURSIVE SumOf(_, _)
\* list.reduce((acc, s) => acc + s[field], 0)
SumOf(list, field) ==
    IF list = <<>> THEN 0
    ELSE Plus(SumOf(SubSeq(list, 1, Len(list) - 1), field), list[Len(list)][field])

\* sales.filter(s => s.timestamp.startsWith(date))
DaySales(list, date) == SelectSeq(list, LAMBDA r : IsoDate(r.timestamp) = date)

ChartData(list, c) ==
    [j \in 1..ChartDays |->
        [fullDate |-> Last7Days(c)[j],
         sales |-> SumOf(DaySales(list, Last7Days(c)[j]), "totalAmount"),
         profit |-> SumOf(DaySales(list, Last7Days(c)[j]), "totalProfit")]]

\* the day the runs start on
FirstDay == 20
Noon(day) == day * 24 + 12

NoChart == [deps |-> <<>>, rows |-> <<>>]

NoMetrics == [inventory |-> <<>>, sales |-> <<>>, totalRevenue |-> 0, totalProfit |-> 0,
              lowStockCount |-> 0]
NoFinancials == [sales |-> <<>>, expenses |-> <<>>, totalSales |-> 0, totalCOGS |-> 0,
                 grossProfit |-> 0, totalExpenses |-> 0, netIncome |-> 0]

\* InventoryItem.lowStockThreshold: of the items the store starts with, and
\* the 5 the add form starts with
LowStockThreshold(id) ==
    CASE id = "A" -> 1
      [] id = "B" -> 0
      [] OTHER -> 5

\* the slip of counting only the items below their threshold
LowStockCountBelow(inv) ==
    Cardinality({ id \in DOMAIN inv : inv[id] < LowStockThreshold(id) })

\* inventory.filter(i => i.quantity <= i.lowStockThreshold).length
LowStockCount(inv) ==
    Cardinality({ id \in DOMAIN inv : inv[id] <= LowStockThreshold(id) })

\* Dashboard's metrics (the stock valuations are left out)
Metrics(inv, list) ==
    [inventory |-> inv, sales |-> list,
     totalRevenue |-> SumOf(list, "totalAmount"),
     totalProfit |-> SumOf(list, "totalProfit"),
     lowStockCount |-> LowStockCount(inv)]

RECURSIVE TotalCOGS(_)
\* sales.reduce((acc, s) => acc + s.items.reduce((iAcc, item) =>
\*    iAcc + (item.costAtSale * item.quantity), 0), 0)
TotalCOGS(list) ==
    IF list = <<>> THEN 0
    ELSE Plus(TotalCOGS(SubSeq(list, 1, Len(list) - 1)),
              TotalCostOfSale(list[Len(list)].items))

\* FinancialReport's financials (the inventory valuation is left out)
Financials(list, exps) ==
    LET totalSales == SumOf(list, "totalAmount")
        totalCOGS == TotalCOGS(list)
        grossProfit == Minus(totalSales, totalCOGS)
        totalExpenses == SumOf(exps, "amount")
    IN [sales |-> list, expenses |-> exps,
        totalSales |-> totalSales, totalCOGS |-> totalCOGS, grossProfit |-> grossProfit,
        totalExpenses |-> totalExpenses, netIncome |-> Minus(grossProfit, totalExpenses)]

\* half a day passes
Tick ==
    /\ clock.utc + 12 < (FirstDay + 2) * 24
    /\ clock' = [clock EXCEPT !.utc = @ + 12]
    /\ UNCHANGED <<local, remote, ops, session, authLoading, activeView, chartData,
                   metrics, financials>>

----------------------------------------------------------------------------
(* The session, and which screen App renders *)

\* useState<Session | null>(null); role is session.user.user_metadata?.role,
\* "" when the metadata carries none
NoSession == [signedIn |-> FALSE, role |-> ""]
Session(role) == [signedIn |-> TRUE, role |-> role]

\* the sessions the auth collaborator hands over
SessionInputs == {NoSession, Session("admin"), Session("cashier"), Session("")}

\* (session.user.user_metadata?.role as UserRole) || 'cashier'
UserRole(s) == IF s.role = "" THEN "cashier" ELSE s.role

Views == {"dashboard", "inventory", "pos", "history",
          "expenses", "financials", "insights", "purchases"}
AdminViews == {"expenses", "financials", "insights", "purchases"}

\* the slip of rendering the view whatever the role
ScreenUngated(s, checking, busy, view) ==
    IF checking THEN "checking"
    ELSE IF ~s.signedIn THEN "auth"
    ELSE IF busy THEN "loading"
    ELSE view

\* what App's render returns: the session check splash, <Auth />, the loading
\* spinner, the component of the view, or nothing where the view is an admin
\* one and the role is not admin
Screen(s, checking, busy, view) ==
    IF checking THEN "checking"
    ELSE IF ~s.signedIn THEN "auth"
    ELSE IF busy THEN "loading"
    ELSE IF view \in AdminViews /\ UserRole(s) # "admin" THEN "nothing"
    ELSE view

Rendered == Screen(session, authLoading, loading, activeView)

\* useEffect(() => { if (session) fetchData() }, [session]): fetchData sets
\* loading and awaits its first select; the screen that was shown is unmounted
SessionEffect(s) ==
    /\ IF s.signedIn
       THEN /\ CanCall
            /\ Call([NoOp EXCEPT !.kind = "fetch", !.pc = "selInventory"])
            /\ loading' = TRUE
       ELSE UNCHANGED <<ops, loading>>
    /\ adjustItem' = NoItem
    /\ chartData' = NoChart
    /\ metrics' = NoMetrics
    /\ financials' = NoFinancials

\* supabase.auth.getSession().then(...)
GetSessionResolved(s) ==
    /\ authLoading
    /\ session' = s
    /\ authLoading' = FALSE
    /\ SessionEffect(s)
    /\ UNCHANGED <<inventory, sales, expenses, purchaseOrders, remote, activeView, clock>>

\* the onAuthStateChange callback: sign-in, sign-out, a refreshed or updated user
AuthStateChange(s) ==
    /\ session' = s
    /\ activeView' = IF s.signedIn THEN "dashboard" ELSE activeView
    /\ SessionEffect(s)
    /\ UNCHANGED <<inventory, sales, expenses, purchaseOrders, remote, authLoading, clock>>

\* the Sign Out button of the sidebar: signOut() ends in the callback above
HandleSignOut ==
    /\ Rendered \notin {"checking", "auth"}
    /\ AuthStateChange(NoSession)

\* a NavItem of the sidebar is clicked; the admin links are rendered for
\* admin only
NavItemClick(view) ==
    /\ Rendered \notin {"checking", "auth"}
    /\ view \in AdminViews => UserRole(session) = "admin"
    /\ activeView' = view
    /\ adjustItem' = NoItem
    /\ chartData' = IF view = "dashboard" THEN chartData ELSE NoChart
    /\ metrics' = IF view = "dashboard" THEN metrics ELSE NoMetrics
    /\ financials' = IF view = "financials" THEN financials ELSE NoFinancials
    /\ UNCHANGED <<inventory, sales, expenses, purchaseOrders, loading, remote, ops,
                   session, authLoading, clock>>

\* Dashboard is shown and renders: useMemo(..., [sales]) computes chartData
\* on the first render and again only when sales has changed since;
\* useMemo(..., [inventory, sales]) computes metrics from what it is given
RenderDashboard ==
    /\ Rendered = "dashboard"
    /\ chartData' = IF chartData = NoChart \/ chartData.deps # sales
                    THEN [deps |-> sales, rows |-> ChartData(sales, clock)]
                    ELSE chartData
    /\ metrics' = Metrics(inventory, sales)
    /\ UNCHANGED <<local, remote, ops, session, authLoading, activeView, clock, financials>>

\* FinancialReport is shown and renders
RenderFinancials ==
    /\ Rendered = "financials"
    /\ financials' = Financials(sales, expenses)
    /\ UNCHANGED <<local, remote, ops, session, authLoading, activeView, clock, chartData,
                   metrics>>

----------------------------------------------------------------------------
\* the first fetchData of the session has completed and read every table
Init ==
    /\ dbInventory = InitialQuantity
    /\ dbSales = {}
    /\ dbExpenses = InitialExpenses
    /\ dbPurchaseOrders = InitialOrders
    /\ inventory = dbInventory
    /\ sales = SortDesc(dbSales)
    /\ expenses = dbExpenses
    /\ purchaseOrders = SortDesc(dbPurchaseOrders)
    /\ loading = FALSE
    /\ adjustItem = NoItem
    /\ ops = <<>>
    /\ session = Session("admin")
    /\ authLoading = FALSE
    /\ activeView = "dashboard"
    /\ clock = [utc |-> Noon(FirstDay), zone |-> FixedZone(0)]
    /\ chartData = NoChart
    /\ metrics = NoMetrics
    /\ financials = NoFinancials

OrderIds == 0..MaxOps

\* sales one after the other: the next is rung up when the last has settled
NextSale ==
    \/ Quiet /\ \E items \in SaleInputs : HandleCompleteSale(items)
    \/ \E k \in DOMAIN ops : FetchResume(k) \/ SaleResume(k)
    \/ \E k \in DOMAIN ops : \E outcome \in Outcomes :
          DbSelect(k, outcome) \/ DbInsertSale(k, outcome) \/ DbUpdateInventory(k, outcome)

SpecSale == Init /\ [][NextSale]_vars

\* purchase orders one call after the other: orders are submitted and the
\* status of any order id, known or not, is set
NextPO ==
    \/ Quiet /\ \E items \in POInputs : HandleSubmitOrder("supplier", items)
    \/ Quiet /\ \E id \in OrderIds, status \in {"received", "cancelled"} :
          HandleUpdatePOStatus(id, status)
    \/ \E k \in DOMAIN ops : FetchResume(k) \/ CreatePOResume(k) \/ UpdatePOResume(k)
    \/ \E k \in DOMAIN ops : \E outcome \in Outcomes :
          \/ DbSelect(k, outcome)
          \/ DbInsertPO(k, outcome)
          \/ DbUpdatePOStatus(k, outcome)
          \/ DbUpdateInventory(k, outcome)

SpecPO == Init /\ [][NextPO]_vars

\* status changes of the stored order that overlap: a call may start while
\* earlier calls still await the store
NextOverlap ==
    \/ \E status \in {"received", "cancelled"} : HandleUpdatePOStatus(0, status)
    \/ \E k \in DOMAIN ops : FetchResume(k) \/ UpdatePOResume(k)
    \/ \E k \in DOMAIN ops : \E outcome \in Outcomes :
          DbSelect(k, outcome) \/ DbUpdatePOStatus(k, outcome) \/ DbUpdateInventory(k, outcome)

SpecOverlap == Init /\ [][NextOverlap]_vars

\* the shop floor: a sale that oversells, stock adjustments and receipts, one
\* call after the other.  The adjustment modal belongs to the inventory
\* screen: it is opened when it is not yet open, possibly before an earlier
\* call has settled, and the other screens' calls are made with it closed.
StockSales == { <<SaleItem("A", 1, 3, 2), SaleItem("B", 2, 0, 1)>> }
ModalClosed == adjustItem = NoItem

Next ==
    \/ Quiet /\ ModalClosed /\ \E items \in StockSales : HandleCompleteSale(items)
    \/ ModalClosed /\ \E id \in StoredIds : OpenAdjustModal(id)
    \/ Quiet /\ \E t \in AdjustmentTypes, parsed \in AdjustInputs : HandleStockAdjustment(t, parsed)
    \/ Quiet /\ ModalClosed /\ HandleUpdatePOStatus(0, "received")
    \/ \E k \in DOMAIN ops :
          FetchResume(k) \/ SaleResume(k) \/ UpdatePOResume(k) \/ UpdateItemResume(k)
    \/ \E k \in DOMAIN ops : \E outcome \in Outcomes :
          \/ DbSelect(k, outcome)
          \/ DbInsertSale(k, outcome)
          \/ DbUpdatePOStatus(k, outcome)
          \/ DbUpdateInventory(k, outcome)

Spec == Init /\ [][Next]_vars

\* every operation that writes to the store, one call after the other
NextWrites ==
    \/ Quiet /\ HandleAddItem(1)
    \/ Quiet /\ \E id \in DOMAIN inventory : HandleSubmitEdit(id, 3)
    \/ Quiet /\ \E id \in DOMAIN inventory : HandleDeleteItem(id)
    \/ Quiet /\ HandleCompleteSale(<<SaleItem("A", 1, 3, 2)>>)
    \/ Quiet /\ HandleAddExpense(1)
    \/ Quiet /\ \E i \in DOMAIN expenses : HandleDeleteExpense(expenses[i].id)
    \/ Quiet /\ HandleSubmitOrder("supplier", <<POItem("B", 1, 2)>>)
    \/ Quiet /\ \E i \in DOMAIN purchaseOrders, status \in {"received", "cancelled"} :
          purchaseOrders[i].status = "ordered"
          /\ HandleUpdatePOStatus(purchaseOrders[i].id, status)
    \/ \E k \in DOMAIN ops :
          \/ FetchResume(k)
          \/ SaleResume(k)
          \/ CreatePOResume(k)
          \/ UpdatePOResume(k)
          \/ UpdateItemResume(k)
          \/ ItemOrExpenseResume(k)
    \/ \E k \in DOMAIN ops : \E outcome \in Outcomes :
          \/ DbSelect(k, outcome)
          \/ DbInsertSale(k, outcome)
          \/ DbInsertPO(k, outcome)
          \/ DbUpdatePOStatus(k, outcome)
          \/ DbUpdateInventory(k, outcome)
          \/ DbInsertItem(k, outcome)
          \/ DbDeleteItem(k, outcome)
          \/ DbInsertExpense(k, outcome)
          \/ DbDeleteExpense(k, outcome)

SpecWrites == Init /\ [][NextWrites]_vars

\* the clocks the Dashboard is rendered under: UTC, fixed offsets east and
\* west, and zones whose summer time ended or began three days ago (at 01:00
\* UTC), read at local hours on either side of midnight and at midday
SummerTimeChange == (FirstDay - 3) * 24 + 1
FallBack == [before |-> 2, after |-> 1, at |-> SummerTimeChange]
SpringForward == [before |-> 1, after |-> 2, at |-> SummerTimeChange]

ClockInputs ==
    { [utc |-> FirstDay * 24 + h, zone |-> z] :
         h \in {0, 12, 23}, z \in {FixedZone(0), FixedZone(2), FixedZone(0 - 5)} }
    \cup { [utc |-> FirstDay * 24 + h, zone |-> FallBack] : h \in {0, 12} }
    \cup { [utc |-> FirstDay * 24 + h, zone |-> SpringForward] : h \in {12, 23} }

\* a stored sale of one unit of item A, made at instant utc
DatedSale(id, utc, price) ==
    [id |-> id, items |-> <<SaleItem("A", 1, price, 1)>>, timestamp |-> utc,
     totalAmount |-> price, totalProfit |-> price - 1]

\* sales made 7 days before today (UTC) in its last hour, 6 days before, the
\* day before, and today in its first hour
DatedSales(c) ==
    LET today == IsoDate(c.utc) IN
    { DatedSale(1, (today - 7) * 24 + 23, 4),
      DatedSale(2, (today - 6) * 24, 2),
      DatedSale(3, (today - 1) * 24 + 12, 8),
      DatedSale(4, today * 24, 1) }

\* the session is signed in, fetchData has read every table, and the store
\* holds any of the dated sales
InitDashboard ==
    /\ dbInventory = InitialQuantity
    /\ dbExpenses = InitialExpenses
    /\ dbPurchaseOrders = InitialOrders
    /\ clock \in ClockInputs
    /\ dbSales \in SUBSET DatedSales(clock)
    /\ inventory = dbInventory
    /\ sales = SortDesc(dbSales)
    /\ expenses = dbExpenses
    /\ purchaseOrders = SortDesc(dbPurchaseOrders)
    /\ loading = FALSE
    /\ adjustItem = NoItem
    /\ ops = <<>>
    /\ session = Session("admin")
    /\ authLoading = FALSE
    /\ activeView = "dashboard"
    /\ chartData = NoChart
    /\ metrics = NoMetrics
    /\ financials = NoFinancials

NextDashboard ==
    \/ RenderDashboard
    \/ Tick

SpecDashboard == InitDashboard /\ [][NextDashboard]_vars

\* App is mounted: no session yet, the session check pending, nothing fetched
InitScreens ==
    /\ dbInventory = InitialQuantity
    /\ dbSales = {}
    /\ dbExpenses = InitialExpenses
    /\ dbPurchaseOrders = InitialOrders
    /\ inventory = <<>>
    /\ sales = <<>>
    /\ expenses = <<>>
    /\ purchaseOrders = <<>>
    /\ loading = FALSE
    /\ adjustItem = NoItem
    /\ ops = <<>>
    /\ session = NoSession
    /\ authLoading = TRUE
    /\ activeView = "dashboard"
    /\ clock = [utc |-> Noon(FirstDay), zone |-> FixedZone(0)]
    /\ chartData = NoChart
    /\ metrics = NoMetrics
    /\ financials = NoFinancials

\* sessions come and go, the sidebar is used, and each handler is called from
\* the screen that is given it as a prop; the store answers without failure
NextScreens ==
    \/ \E s \in SessionInputs : GetSessionResolved(s)
    \/ \E s \in SessionInputs : AuthStateChange(s)
    \/ HandleSignOut
    \/ \E view \in Views : NavItemClick(view)
    \/ Rendered = "pos" /\ HandleCompleteSale(<<SaleItem("A", 1, 3, 2)>>)
    \/ Rendered = "expenses" /\ HandleAddExpense(1)
    \/ Rendered = "expenses" /\ \E i \in DOMAIN expenses : HandleDeleteExpense(expenses[i].id)
    \/ Rendered = "purchases" /\ HandleSubmitOrder("supplier", <<POItem("B", 1, 2)>>)
    \/ Rendered = "purchases"
          /\ \E i \in DOMAIN purchaseOrders, status \in {"received", "cancelled"} :
                purchaseOrders[i].status = "ordered"
                /\ HandleUpdatePOStatus(purchaseOrders[i].id, status)
    \/ \E k \in DOMAIN ops :
          \/ FetchResume(k)
          \/ SaleResume(k)
          \/ CreatePOResume(k)
          \/ UpdatePOResume(k)
          \/ ItemOrExpenseResume(k)
    \/ \E k \in DOMAIN ops :
          \/ DbSelect(k, "ok")
          \/ DbInsertSale(k, "ok")
          \/ DbInsertPO(k, "ok")
          \/ DbUpdatePOStatus(k, "ok")
          \/ DbUpdateInventory(k, "ok")
          \/ DbInsertExpense(k, "ok")
          \/ DbDeleteExpense(k, "ok")

SpecScreens == InitScreens /\ [][NextScreens]_vars

\* the sales and the expense rung up in the runs that show the figures: prices
\* whose sums need rounding, a sale that takes A down to its threshold and one
\* that takes B below zero
MetricSales ==
    { <<SaleItem("A", 1, 10, 3)>>,
      <<SaleItem("A", 1, 9, 2)>>,
      <<SaleItem("B", 2, 3, 1)>> }

\* an admin moves between the point of sale, the expenses, the dashboard and
\* the financial report; sales and expenses are entered one after the other
\* and the store answers without failure
NextMetrics ==
    \/ \E view \in {"dashboard", "pos", "expenses", "financials"} : NavItemClick(view)
    \/ Rendered = "pos" /\ Quiet /\ \E items \in MetricSales : HandleCompleteSale(items)
    \/ Rendered = "expenses" /\ Quiet /\ HandleAddExpense(3)
    \/ RenderDashboard
    \/ RenderFinancials
    \/ \E k \in DOMAIN ops :
          \/ SaleResume(k)
          \/ ItemOrExpenseResume(k)
    \/ \E k \in DOMAIN ops :
          \/ DbInsertSale(k, "ok")
          \/ DbUpdateInventory(k, "ok")
          \/ DbInsertExpense(k, "ok")

SpecMetrics == Init /\ [][NextMetrics]_vars

\* the inventory screen: a sale takes B below zero, the adjustment modal is
\* opened on an item and submitted with any of the texts, one call after the
\* other; the store answers without failure
NextAdjust ==
    \/ Quiet /\ ModalClosed /\ HandleCompleteSale(<<SaleItem("B", 2, 3, 1)>>)
    \/ ModalClosed /\ \E id \in StoredIds : OpenAdjustModal(id)
    \/ Quiet /\ \E t \in AdjustmentTypes, a \in AdjustTexts : SubmitAdjustForm(t, a.text)
    \/ \E k \in DOMAIN ops :
          SaleResume(k) \/ UpdateItemResume(k)
    \/ \E k \in DOMAIN ops :
          \/ DbInsertSale(k, "ok")
          \/ DbUpdateInventory(k, "ok")

SpecAdjust == Init /\ [][NextAdjust]_vars

\* the session goes on after the stored order has been received: its status
\* is received and its quantities are in stock, in memory and in the store;
\* a second order, for B, is still ordered and a third has been cancelled
FirstOrder == CHOOSE o \in InitialOrders : TRUE
SecondOrder == Order(1, "ordered", <<POItem("B", 2, 3)>>)
ThirdOrder == Order(2, "cancelled", <<POItem("B", 1, 3)>>)
StockAfterReceipt ==
    [id \in DOMAIN InitialQuantity |-> InitialQuantity[id] + QtyFor(FirstOrder.items, id)]

InitAfterReceipt ==
    /\ dbInventory = StockAfterReceipt
    /\ dbSales = {}
    /\ dbExpenses = InitialExpenses
    /\ dbPurchaseOrders = {[FirstOrder EXCEPT !.status = "received"], SecondOrder, ThirdOrder}
    /\ inventory = dbInventory
    /\ sales = SortDesc(dbSales)
    /\ expenses = dbExpenses
    /\ purchaseOrders = SortDesc(dbPurchaseOrders)
    /\ loading = FALSE
    /\ adjustItem = NoItem
    /\ ops = <<>>
    /\ session = Session("admin")
    /\ authLoading = FALSE
    /\ activeView = "purchases"
    /\ clock = [utc |-> Noon(FirstDay), zone |-> FixedZone(0)]
    /\ chartData = NoChart
    /\ metrics = NoMetrics
    /\ financials = NoFinancials

\* status changes of the three orders, each called when the one before has
\* completed, with a store that never fails
NextReceipts ==
    \/ Quiet /\ \E id \in {FirstOrder.id, SecondOrder.id, ThirdOrder.id}, status \in {"received", "cancelled"} :
          HandleUpdatePOStatus(id, status)
    \/ \E k \in DOMAIN ops : UpdatePOResume(k)
    \/ \E k \in DOMAIN ops : DbUpdatePOStatus(k, "ok") \/ DbUpdateInventory(k, "ok")

SpecReceipts == InitAfterReceipt /\ [][NextReceipts]_vars

\* sales and the receipt of the stored order in any interleaving, a call
\* starting while others await the store, with a store that never fails
RaceSales == { <<SaleItem("A", 1, 3, 2)>>, <<SaleItem("B", 1, 2, 1)>> }

NextRace ==
    \/ \E items \in RaceSales : HandleCompleteSale(items)
    \/ HandleUpdatePOStatus(0, "received")
    \/ \E k \in DOMAIN ops : SaleResume(k) \/ UpdatePOResume(k)
    \/ \E k \in DOMAIN ops :
          DbInsertSale(k, "ok") \/ DbUpdatePOStatus(k, "ok") \/ DbUpdateInventory(k, "ok")

SpecRace == Init /\ [][NextRace]_vars

\* a status change of the stored order, called again from the same render
\* while it is in flight; the store may answer an inventory update with
\* { error }, which the handler does not look at
NextSameRender ==
    \/ Quiet /\ \E status \in {"received", "cancelled"} : HandleUpdatePOStatus(0, status)
    \/ \E k \in DOMAIN ops : HandleUpdatePOStatusAgain(k)
    \/ \E k \in DOMAIN ops : UpdatePOResume(k)
    \/ \E k \in DOMAIN ops : DbUpdatePOStatus(k, "ok")
    \/ \E k \in DOMAIN ops : \E outcome \in {"ok", "err"} : DbUpdateInventory(k, outcome)

SpecSameRender == Init /\ [][NextSameRender]_vars

----------------------------------------------------------------------------
(* Reference sums the claims are stated with, written over Head and Tail *)

RECURSIVE SumQtyTimes(_, _)
SumQtyTimes(items, field) ==
    IF items = <<>> THEN 0
    ELSE Head(items).quantity * Head(items)[field] + SumQtyTimes(Tail(items), field)

LineIds(items) == { items[i].itemId : i \in DOMAIN items }
SaleOps == { k \in DOMAIN ops : ops[k].kind = "sale" }
Settled(k) == ops[k].pc = "done"
Latest(k) == k = Len(ops)
SeqToSet(s) == { s[i] : i \in DOMAIN s }

----------------------------------------------------------------------------
(* Claims about handleCompleteSale, under SpecSale *)

\* C1: every SaleRecord completeSale creates (the one it hands to the store,
\* the ones in the in-memory list and the ones stored) has totalAmount equal
\* to the sum of quantity*priceAtSale over its lines and totalProfit equal to
\* totalAmount minus the sum of quantity*costAtSale, zero quantities and zero
\* prices included.
C1_SaleTotals ==
    LET Right(r) == /\ r.totalAmount = SumQtyTimes(r.items, "priceAtSale")
                    /\ r.totalProfit = r.totalAmount - SumQtyTimes(r.items, "costAtSale")
    IN /\ \A k \in SaleOps : ops[k].rec.items = ops[k].items /\ Right(ops[k].rec)
       /\ \A i \in DOMAIN sales : Right(sales[i])
       /\ \A r \in dbSales : Right(r)

\* a stored sale with a line at price zero and a positive quantity (sold at a
\* loss), and an in-memory sale with a zero quantity line
C1_Witness ==
    /\ \E r \in dbSales : \E i \in DOMAIN r.items :
          r.items[i].priceAtSale = 0 /\ r.items[i].quantity > 0 /\ r.totalProfit < 0
    /\ \E j \in DOMAIN sales : \E i \in DOMAIN sales[j].items :
          sales[j].items[i].quantity = 0

\* C2: once a completeSale has returned with every remote write succeeded,
\* each item of the inventory it was called on is in memory with its quantity
\* lowered by the summed quantity of all the sale's lines that carry its id.
C2_LocalDecrement ==
    \A k \in SaleOps :
        Settled(k) /\ Latest(k) /\ ~ops[k].failed =>
            \A id \in DOMAIN ops[k].inv :
                /\ id \in DOMAIN inventory
                /\ inventory[id] = ops[k].inv[id] - QtyFor(ops[k].items, id)

\* a successful sale that lists the same stocked item on two lines
C2_Witness ==
    \E k \in SaleOps :
        /\ Settled(k) /\ Latest(k) /\ ~ops[k].failed
        /\ \E i, j \in DOMAIN ops[k].items :
              i # j /\ ops[k].items[i].itemId = ops[k].items[j].itemId
                    /\ ops[k].items[i].itemId \in DOMAIN ops[k].inv
                    /\ ops[k].items[i].quantity > 0

\* C3 as claimed: after a completeSale that ran alone and whose remote writes
\* all succeeded, the new record is in the in-memory list and in the store,
\* and every item of the sale has the same quantity in memory and in the
\* store, a sale with the same itemId on several lines included.
C3_LocalRemoteAgree ==
    \A k \in SaleOps :
        Settled(k) /\ Latest(k) /\ ops[k].alone /\ ~ops[k].failed =>
            /\ ops[k].rec \in SeqToSet(sales)
            /\ ops[k].rec \in dbSales
            /\ \A id \in LineIds(ops[k].items) \cap DOMAIN inventory \cap DOMAIN dbInventory :
                  inventory[id] = dbInventory[id]

\* C4 as claimed: when a remote write of completeSale failed, then once the
\* handler and the recovery it started have finished, the in-memory inventory
\* and sales are what a fresh read of the store returns.
C4_RecoveredToStore ==
    \A k \in SaleOps :
        Settled(k) /\ Latest(k) /\ ops[k].alone /\ ops[k].failed =>
            /\ inventory = dbInventory
            /\ sales = SortDesc(dbSales)

\* C8: a completeSale with a line whose itemId matches no InventoryItem raises
\* no failure of its own (a notice only follows a failed remote call), records
\* the sale, adds no item to the in-memory inventory or to the store, asks the
\* store for no update of an id it did not find, and leaves the in-memory
\* quantity of every item the sale does not name as it was.
C8_UnknownItem ==
    \A k \in SaleOps :
        (LineIds(ops[k].items) \ DOMAIN ops[k].inv # {}) =>
            /\ ops[k].alerted => ops[k].failed
            /\ DOMAIN dbInventory = DOMAIN InitialQuantity
            /\ ops[k].pc = "updInventory" =>
                  /\ ops[k].item \in DOMAIN ops[k].inv
                  /\ ops[k].item = ops[k].items[ops[k].idx].itemId
            /\ Latest(k) /\ ~ops[k].refetched =>
                  /\ ops[k].rec \in SeqToSet(sales)
                  /\ DOMAIN inventory = DOMAIN ops[k].inv
                  /\ \A id \in DOMAIN inventory \ LineIds(ops[k].items) :
                        inventory[id] = ops[k].inv[id]
            /\ Settled(k) /\ ~ops[k].failed => ops[k].rec \in dbSales

\* a sale of an unknown item and a stocked one has gone through: recorded in
\* the store, the stocked item's update made
C8_Witness ==
    \E k \in SaleOps :
        /\ Settled(k) /\ Latest(k) /\ ~ops[k].failed
        /\ "X" \in LineIds(ops[k].items) /\ "X" \notin DOMAIN ops[k].inv
        /\ "A" \in LineIds(ops[k].items)
        /\ ops[k].rec \in dbSales
        /\ dbInventory["A"] = ops[k].inv["A"] - 1

\* the remote writes of handleCompleteSale
SaleWritePcs == {"insSale", "updInventory"}

\* C11 as claimed: once completeSale has seen a remote write of its
\* transaction fail (the sale insert or any inventory update), it issues no
\* further remote write, a failure notice has been shown and a re-fetch of the
\* collections has been started.
C11_FailureAborts ==
    \A k \in SaleOps :
        (ops[k].failed /\ ~(ops[k].pc \in SaleWritePcs /\ ops[k].resp # "none")) =>
            /\ ops[k].pc \notin SaleWritePcs
            /\ ops[k].alerted
            /\ ops[k].refetched

----------------------------------------------------------------------------
(* Claims about purchase orders *)

UpdatePOOps == { k \in DOMAIN ops : ops[k].kind = "updatePO" /\ ops[k].found }
CreatePOOps == { k \in DOMAIN ops : ops[k].kind = "createPO" }
Receipts == { k \in UpdatePOOps : ops[k].status = "received" }

\* the status of order id in a list of orders or in the stored set; "" when
\* the order is not there
StatusIn(pos, id) ==
    IF FindOrder(pos, id) = 0 THEN "" ELSE pos[FindOrder(pos, id)].status
StatusInStore(id) ==
    IF \E o \in dbPurchaseOrders : o.id = id
    THEN (CHOOSE o \in dbPurchaseOrders : o.id = id).status ELSE ""

\* C5: when updatePurchaseOrderStatus(id, received) is called on an order in
\* status ordered and called again once the first call's status change shows
\* in memory (while the first call still awaits the store, or after it), the
\* second call never restocks; and when the remote calls of both succeed,
\* every inventory item of the order ends up, in memory and in the store,
\* with the quantity the first call saw plus the quantity ordered for it:
\* incremented once over the two calls.
C5_ReceivedTwiceOnce ==
    /\ \A j \in Receipts :
          ops[j].poStatus = "received" => ops[j].upd = <<>> /\ ops[j].pc # "updInventory"
    /\ \A i, j \in Receipts :
          ( /\ j = i + 1 /\ Latest(j) /\ ops[i].id = ops[j].id
            /\ ops[i].poStatus = "ordered" /\ ops[i].quietAtCall
            /\ Settled(i) /\ Settled(j) /\ ~ops[i].failed /\ ~ops[j].failed )
          => /\ ops[j].poStatus = "received"
             /\ \A id \in DOMAIN ops[i].inv :
                   /\ inventory[id] = ops[i].inv[id] + QtyFor(ops[i].items, id)
                   /\ id \in LineIds(ops[i].items) /\ id \in DOMAIN dbInventory
                         => dbInventory[id] = inventory[id]

\* the second call was made while the first still awaited the store, both
\* have returned, and item A holds its 2 units plus the 3 ordered
C5_Witness ==
    \E i, j \in Receipts :
        /\ j = i + 1 /\ Latest(j) /\ ops[i].id = ops[j].id
        /\ ops[i].poStatus = "ordered" /\ ops[i].quietAtCall /\ ~ops[i].alone
        /\ Settled(i) /\ Settled(j) /\ ~ops[i].failed /\ ~ops[j].failed
        /\ QtyFor(ops[i].items, "A") = 3
        /\ inventory["A"] = ops[i].inv["A"] + 3 /\ dbInventory["A"] = inventory["A"]

\* C6: receiving an order in status ordered, alone and with every remote call
\* succeeding, leaves the order received in memory and in the store (where
\* the store holds it) and every
\* inventory item of the order at its former quantity plus the total ordered
\* for its id over all lines, the same in memory and in the store.
C6_ReceiveOrdered ==
    \A k \in Receipts :
        ( /\ ops[k].poStatus = "ordered" /\ ops[k].alone
          /\ Settled(k) /\ Latest(k) /\ ~ops[k].failed )
        => /\ StatusIn(purchaseOrders, ops[k].id) = "received"
           /\ StatusInStore(ops[k].id) \in {"received", ""}
           /\ \A id \in LineIds(ops[k].items) \cap DOMAIN ops[k].inv :
                 /\ inventory[id] = ops[k].inv[id] + QtyFor(ops[k].items, id)
                 /\ id \in DOMAIN dbInventory => dbInventory[id] = inventory[id]

\* the stored order, with item A on two lines, has been received: A went from
\* 2 to 5 in memory and in the store, and the store holds the order received
C6_Witness ==
    \E k \in Receipts :
        /\ ops[k].poStatus = "ordered" /\ ops[k].alone
        /\ Settled(k) /\ Latest(k) /\ ~ops[k].failed
        /\ Len(ops[k].items) = 3
        /\ ops[k].inv["A"] = 2 /\ inventory["A"] = 5 /\ dbInventory["A"] = 5
        /\ StatusInStore(ops[k].id) = "received"

\* C7: an order created through createPurchaseOrder has status ordered and a
\* totalCost equal to the sum of quantity*unitCost over its lines, and stands
\* first in the in-memory list (until another call or a re-fetch changes it).
C7_CreatedOrder ==
    \A k \in CreatePOOps :
        /\ ops[k].rec.status = "ordered"
        /\ ops[k].rec.items = ops[k].items
        /\ ops[k].rec.totalCost = SumQtyTimes(ops[k].items, "unitCost")
        /\ Latest(k) /\ ~ops[k].refetched =>
              purchaseOrders # <<>> /\ purchaseOrders[1] = ops[k].rec
        /\ Settled(k) /\ ~ops[k].failed /\ Latest(k) => ops[k].rec \in dbPurchaseOrders

\* an order of two lines costing 2*3 + 1*1 has been stored and heads the list
\* in front of the order that was there before
C7_Witness ==
    \E k \in CreatePOOps :
        /\ Settled(k) /\ ~ops[k].failed /\ Latest(k)
        /\ Len(ops[k].items) = 2 /\ ops[k].rec.totalCost = 7
        /\ Len(purchaseOrders) = 2 /\ purchaseOrders[1].id = ops[k].id
        /\ ops[k].rec \in dbPurchaseOrders

\* C9 as claimed: an order that is received or cancelled, in memory or in the
\* store, keeps that status in every later state.
C9_StatusOneWay ==
    [][\A id \in OrderIds :
          /\ StatusIn(purchaseOrders, id) \in {"received", "cancelled"}
                => StatusIn(purchaseOrders', id) \in {StatusIn(purchaseOrders, id), ""}
          /\ StatusInStore(id) \in {"received", "cancelled"}
                => StatusInStore(id)' \in {StatusInStore(id), ""}]_vars

\* C18: createPurchaseOrder issues one remote write, the insert of the order,
\* and no remote inventory write: the call awaits the insert, an invocation
\* never comes back to a write after it, and while the order it created is the
\* latest call and no re-fetch has been started (the insert has not failed) no
\* step changes a quantity in memory or in the store.
C18_CreateTouchesNoStock ==
    [][ \A k \in DOMAIN ops' :
           ops'[k].kind = "createPO" =>
              /\ ops'[k].pc \in {"insPO", "done"} \cup FetchPcs
              /\ ops'[k].pc = "insPO" =>
                    \/ k \notin DOMAIN ops
                    \/ ops[k].pc = "insPO"
              /\ (k = Len(ops') /\ ~ops'[k].refetched) =>
                    inventory' = inventory /\ dbInventory' = dbInventory ]_vars

\* an order for 2 units of item B has been created and stored, and B is still
\* at 1 in memory and in the store
C18_Witness ==
    \E k \in CreatePOOps :
        /\ Settled(k) /\ ~ops[k].failed /\ Latest(k)
        /\ QtyFor(ops[k].items, "B") = 2
        /\ ops[k].rec \in dbPurchaseOrders
        /\ inventory["B"] = 1 /\ dbInventory["B"] = 1

\* the in-memory list holds an order with this id
Listed(id) == \E i \in DOMAIN purchaseOrders : purchaseOrders[i].id = id

\* C19: a call of updatePurchaseOrderStatus with an id that no order of the
\* in-memory list carries returns at once: the step of the call leaves every
\* in-memory collection and the store as they were and no request is awaited.
C19_UnknownOrderNoOp ==
    [][ ( /\ Len(ops') = Len(ops) + 1
          /\ ops'[Len(ops')].kind = "updatePO"
          /\ ~Listed(ops'[Len(ops')].id) )
        => /\ ops'[Len(ops')].pc = "done"
           /\ local' = local
           /\ remote' = remote ]_vars

\* a status change for an id no order carries has been called after an order
\* was created, and the two orders in memory and in the store are still ordered
C19_Witness ==
    /\ Len(ops) = 2
    /\ ops[1].kind = "createPO" /\ ~ops[1].failed
    /\ ops[2].kind = "updatePO" /\ ops[2].id = 2 /\ ~ops[2].found /\ Settled(2)
    /\ \A i \in DOMAIN purchaseOrders : purchaseOrders[i].status = "ordered"
    /\ \A o \in dbPurchaseOrders : o.status = "ordered"
    /\ Len(purchaseOrders) = 2 /\ Cardinality(dbPurchaseOrders) = 2

----------------------------------------------------------------------------
(* Claims about stored quantities, under Spec *)

UpdateItemOps == { k \in DOMAIN ops : ops[k].kind = "updateItem" }

\* C10 as claimed: the quantity the store holds for an item is never negative.
C10_StoredNeverNegative ==
    \A id \in DOMAIN dbInventory : dbInventory[id] >= 0

\* C10, amended: after any sequence of stock adjustments, sales and receipts
\* of orders whose lines carry no negative quantity, the quantity the store
\* holds for an item is below zero only if a completeSale has named that item:
\* adjustments floor at zero and receipts add, sales do not look at the stock.
C10_NegativeOnlyBySale ==
    \A id \in DOMAIN dbInventory :
        dbInventory[id] < 0 => \E k \in SaleOps : id \in LineIds(ops[k].items)

\* a sale of 2 units of item B, stocked with 1, has stored -1 for it; then
\* removing 2 units from item A, shown with 1, has stored 0
C10_Witness ==
    /\ \E k \in SaleOps : Settled(k) /\ ~ops[k].failed /\ "B" \in LineIds(ops[k].items)
    /\ dbInventory["B"] = -1
    /\ \E k \in UpdateItemOps :
          /\ Settled(k) /\ ~ops[k].failed
          /\ ops[k].item = "A" /\ ops[k].inv["A"] = 1 /\ ops[k].qty = 0
          /\ dbInventory["A"] = 0

----------------------------------------------------------------------------
(* Claims about every writing operation, under SpecWrites *)

\* C16: a SaleRecord the store holds stays as it is: no step of any operation
\* (add, edit or delete an item, a sale, add or delete an expense, create an
\* order, change an order's status, a re-fetch) removes or changes a stored
\* sale, so the stored sales only grow.
C16_SalesImmutable ==
    [][dbSales \subseteq dbSales']_vars

\* a sale of item A is stored, and the item it names has since been deleted
\* from the store
C16_Witness ==
    /\ Len(ops) = 2
    /\ ops[1].kind = "sale" /\ ops[1].rec \in dbSales
    /\ ops[2].kind = "deleteItem" /\ ops[2].item = "A"
    /\ Settled(2) /\ ~ops[2].failed
    /\ "A" \notin DOMAIN dbInventory

\* the awaits that are remote writes
WritePcs == SaleWritePcs \cup ItemWritePcs \cup {"updItem", "insPO", "updStatus", "delExpense"}

\* C17 as claimed: whichever operation wrote, once it has seen its remote
\* write fail a failure notice has been shown and a re-fetch started.
C17_WriteFailureReported ==
    \A k \in DOMAIN ops :
        (ops[k].failed /\ ~(ops[k].pc \in WritePcs /\ ops[k].resp # "none")) =>
            /\ ops[k].alerted
            /\ ops[k].refetched

----------------------------------------------------------------------------
(* Claims about overlapping calls, under SpecRace and SpecSameRender *)

RECURSIVE NetChange(_, _)
\* what the local mutations of the first n invocations add up to for item id:
\* each sale takes its quantities off, each receipt of an order that was not
\* yet received adds them
NetChange(n, id) ==
    IF n = 0 THEN 0
    ELSE NetChange(n - 1, id)
         + (IF ops[n].kind = "sale" THEN 0 - QtyFor(ops[n].items, id)
            ELSE IF ops[n].kind = "updatePO" /\ ops[n].found
                    /\ ops[n].status = "received" /\ ops[n].poStatus # "received"
                 THEN QtyFor(ops[n].items, id)
                 ELSE 0)

\* C12 as claimed: with no remote call failing, once every started sale and
\* receipt has completed each item has the same quantity in memory and in the
\* store.
C12_EventuallyConsistent ==
    Quiet => \A id \in DOMAIN inventory \cap DOMAIN dbInventory :
                inventory[id] = dbInventory[id]

\* C13 as claimed: no local mutation is lost: once every started sale and
\* receipt has completed, the in-memory quantity of each item is its first
\* quantity with every sale's decrement and every receipt's increment applied;
\* in particular a sale made while a receipt awaits the store still shows.
C13_NoLostLocalUpdate ==
    Quiet => \A id \in DOMAIN inventory :
                inventory[id] = InitialQuantity[id] + NetChange(Len(ops), id)

NoneFailed == \A k \in DOMAIN ops : ~ops[k].failed

\* receipts of one order that read the same render: the order still ordered
SameRenderReceipts ==
    { p \in Receipts \X Receipts :
         /\ p[1] < p[2]
         /\ ops[p[1]].id = ops[p[2]].id
         /\ ops[p[1]].poStatus = "ordered" /\ ops[p[2]].poStatus = "ordered"
         /\ ops[p[1]].inv = ops[p[2]].inv }

----------------------------------------------------------------------------
(* Claims about the Dashboard, under SpecDashboard *)

RECURSIVE TotalOf(_, _)
\* the sum of a field over a set of records
TotalOf(S, field) ==
    IF S = {} THEN 0
    ELSE LET r == CHOOSE x \in S : TRUE IN r[field] + TotalOf(S \ {r}, field)

\* C15 as claimed, with today and a sale's date read as the UTC dates the code
\* compares: the rendered series has 7 buckets, for the dates today-6 to today
\* in order, and each bucket totals the sales dated its date, so that a sale
\* of today or today-6 is in its own bucket and one of today-7 in none.
C15_TrailingWeek ==
    chartData # NoChart =>
        LET today == IsoDate(clock.utc) IN
        /\ Len(chartData.rows) = 7
        /\ \A j \in 1..7 :
              /\ chartData.rows[j].fullDate = today - 7 + j
              /\ chartData.rows[j].sales =
                    TotalOf({ r \in SeqToSet(sales) : IsoDate(r.timestamp) = today - 7 + j },
                            "totalAmount")

----------------------------------------------------------------------------
(* Claims about roles and screens, under SpecScreens *)

\* the handlers that are props of the expenses and purchases screens
AdminKinds == {"createPO", "updatePO", "addExpense", "deleteExpense"}

\* a handler of one of these kinds is called in this step
AdminCall ==
    /\ Len(ops') = Len(ops) + 1
    /\ ops'[Len(ops')].kind \in AdminKinds

\* C20: while the session is signed in with the role cashier or with no role,
\* none of the purchases, expenses, financials and insights screens is
\* rendered, whichever view activeView names, and no step calls
\* createPurchaseOrder, updatePurchaseOrderStatus, addExpense or deleteExpense;
\* with no session nothing is rendered but the sign-in screen, preceded by
\* the splash shown until the session check has resolved.
C20_RoleGatesScreens ==
    /\ [](session.signedIn /\ session.role \in {"cashier", ""} =>
             \A view \in Views :
                Screen(session, authLoading, loading, view) \notin AdminViews)
    /\ [](~session.signedIn =>
             /\ Rendered \in {"checking", "auth"}
             /\ ~authLoading => Rendered = "auth")
    /\ [][AdminCall => session.signedIn /\ session.role = "admin"]_vars

\* a session without a role is shown the point of sale and has rung up a
\* sale there
C20_Witness ==
    /\ session = Session("")
    /\ Rendered = "pos"
    /\ \E k \in DOMAIN ops : ops[k].kind = "sale"

----------------------------------------------------------------------------
(* Claims about retries and the order of the remote writes *)

\* how far invocation o has come through its remote writes: its first write,
\* then the inventory update of line idx, then past them all
WriteRank(o) ==
    IF o.pc = "updInventory" THEN o.idx
    ELSE IF o.pc \in WritePcs THEN 0
    ELSE Len(o.items) + 1

\* invocation k sends a remote write in this step
Issued(k) ==
    /\ ops'[k].pc \in WritePcs
    /\ ops'[k].resp = "none"
    /\ k \in DOMAIN ops =>
          \/ ops[k].pc # ops'[k].pc
          \/ ops[k].idx # ops'[k].idx
          \/ ops[k].resp # "none"

\* C21 as claimed: an operation sends each of its remote writes at most once
\* (every write it sends lies further along its sequence of writes than the
\* one before), and once one of its remote writes has failed it sends no
\* remote write any more: only the reads of the re-fetch follow.
C21_NoRetry ==
    [][\A k \in DOMAIN ops' :
          Issued(k) /\ k \in DOMAIN ops =>
              /\ WriteRank(ops'[k]) > WriteRank(ops[k])
              /\ ~ops[k].failed]_vars

----------------------------------------------------------------------------
(* Claims about the figures of the Dashboard and the financial report, under
   SpecMetrics *)

C30_ProfitsAgree ==
    financials # NoFinancials =>
        /\ financials.grossProfit = Metrics(inventory, financials.sales).totalProfit
        /\ financials.netIncome =
              Minus(financials.grossProfit, SumOf(financials.expenses, "amount"))

----------------------------------------------------------------------------
(* Claims about the order of completeSale's remote writes, under SpecSale *)

\* the insert of sale k was answered and the store does not hold the record
InsertFailed(k) ==
    /\ ops[k].kind = "sale"
    /\ ~Pending(k, "insSale")
    /\ ops[k].rec \notin dbSales

\* C23: a sale begins with the insert of its record; it awaits an inventory
\* update only while the store holds that record, and sends it either as its
\* first update, on the insert's success, or after the update before it was
\* answered and for a later line; the stored inventory changes only by the
\* update of an invocation whose insert did not fail.
C23_InsertThenUpdates ==
    /\ [](\A k \in SaleOps :
             ops[k].pc = "updInventory" =>
                /\ ops[k].rec \in dbSales
                /\ ops[k].idx \in DOMAIN ops[k].items
                /\ ops[k].item = ops[k].items[ops[k].idx].itemId)
    /\ [][/\ \A k \in DOMAIN ops' \ DOMAIN ops :
                ops'[k].kind = "sale" => ops'[k].pc = "insSale"
          /\ \A k \in SaleOps :
                Issued(k) =>
                   \/ ops[k].pc = "insSale" /\ ops[k].resp = "ok"
                   \/ /\ ops[k].pc = "updInventory"
                      /\ ops[k].resp # "none"
                      /\ ops'[k].idx > ops[k].idx
          /\ dbInventory' # dbInventory =>
                \E k \in SaleOps : Pending(k, "updInventory") /\ ~InsertFailed(k)]_vars

\* a sale whose insert failed has ended, and a later sale of two items awaits
\* the update of its second line
C23_Witness ==
    \E k, j \in SaleOps :
        /\ InsertFailed(k) /\ Settled(k)
        /\ Pending(j, "updInventory")
        /\ ops[j].idx = 2

----------------------------------------------------------------------------
(* Claims about the stock adjustment form, under SpecAdjust *)

\* what C24 says the form requests for the item shown in the modal
RequestedQty(adjustmentType, q, n) ==
    CASE adjustmentType = "add" -> q + n
      [] adjustmentType = "remove" -> Max(0, q - n)
      [] adjustmentType = "set" -> n

\* C24 as claimed: submitting the form with the number n >= 0 in the field
\* requests the quantity q + n, max(0, q - n) or n for the item shown with q,
\* by the adjustment type; submitting it with a text that is no number, or
\* with a negative one, shows a notice and requests nothing.
C24_AdjustmentRequests ==
    [][\A t \in AdjustmentTypes, a \in AdjustTexts :
          SubmitAdjustForm(t, a.text) =>
             LET o == ops'[Len(ops')] IN
             IF a.isNumber /\ a.number >= 0
             THEN /\ o.kind = "updateItem"
                  /\ o.pc = "updItem" /\ o.resp = "none"
                  /\ o.item = adjustItem.id
                  /\ o.qty = RequestedQty(t, adjustItem.quantity, a.number)
             ELSE /\ o.alerted
                  /\ o.pc = "done"
                  /\ remote' = remote]_vars

----------------------------------------------------------------------------
(* Claims about a sale and a receipt that overlap, under SpecRace *)

\* C25 as claimed: when one sale and one receipt of the stored order have been
\* called, in either order and with their remote calls interleaved in any way,
\* and both have completed, the store holds for every item both of them name
\* its first quantity less what was sold plus what was received.
C25_StockConserved ==
    \A k, j \in DOMAIN ops :
        /\ Len(ops) = 2
        /\ ops[k].kind = "sale" /\ Settled(k)
        /\ ops[j].kind = "updatePO" /\ ops[j].status = "received" /\ Settled(j)
        => \A id \in LineIds(ops[k].items) \cap LineIds(ops[j].items) \cap DOMAIN dbInventory :
              dbInventory[id] = InitialQuantity[id] - QtyFor(ops[k].items, id)
                                + QtyFor(ops[j].items, id)

----------------------------------------------------------------------------
(* Claims about repeated status changes of an order, under SpecReceipts *)

\* the calls that have added the quantities of order id to stock
Restocks(id) ==
    { k \in UpdatePOOps : ops[k].id = id /\ ops[k].found /\ ops[k].upd # <<>> }

\* C26 as claimed: over the status changes that follow one another on an
\* order, its quantities are added to stock at most once: no call adds those
\* of the first order, received before, and at most one call adds those of
\* each of the others.
C26_IncrementedAtMostOnce ==
    /\ Restocks(FirstOrder.id) = {}
    /\ \A id \in {SecondOrder.id, ThirdOrder.id} : Cardinality(Restocks(id)) <= 1

\* C27 as claimed: no step of a call that sets an order to cancelled, or that
\* sets to received an order it found cancelled, changes a quantity in memory
\* or in the store.
C27_CancelledNeverStocks ==
    [][\A k \in DOMAIN ops' :
          /\ ops'[k].kind = "updatePO"
          /\ ops'[k].status = "cancelled" \/ ops'[k].poStatus = "cancelled"
          /\ k \in DOMAIN ops => InFlight(ops[k])
          => inventory' = inventory /\ dbInventory' = dbInventory]_vars

----------------------------------------------------------------------------
(* Claims about re-attempting a failed receipt, under SpecPO *)

\* C28 as claimed: when a receipt of an order in status ordered has had its
\* status stored, has failed at one of its inventory updates and has re-fetched
\* every table, and the receipt is then called again and all its remote calls
\* succeed, the store holds for every item of the order the quantity the first
\* call saw plus the quantity ordered.
C28_ReattemptCompletes ==
    \A i, j \in Receipts :
        ( /\ j = i + 1 /\ Latest(j) /\ ops[i].id = ops[j].id
          /\ ops[i].found /\ ops[i].poStatus = "ordered" /\ ops[i].upd # <<>>
          /\ ops[i].failed /\ ops[i].refetched /\ ops[i].fetchOk /\ Settled(i)
          /\ ops[j].quietAtCall /\ Settled(j) /\ ~ops[j].failed )
        => \A id \in LineIds(ops[i].items) \cap DOMAIN ops[i].inv \cap DOMAIN dbInventory :
              dbInventory[id] = ops[i].inv[id] + QtyFor(ops[i].items, id)

----------------------------------------------------------------------------
(* Claims about the re-fetch, under SpecSale *)

\* C29 as claimed: when the re-fetch a failed sale started has completed and
\* nothing was called since, either every collection in memory is what the
\* store returned, or, a read having failed, none has changed: the inventory
\* is still the one the sale left, and the sale still heads the list of sales.
C29_RefetchAllOrNothing ==
    \A k \in SaleOps :
        Latest(k) /\ Settled(k) /\ ops[k].refetched =>
            IF ops[k].fetchOk
            THEN /\ inventory = dbInventory
                 /\ sales = SortDesc(dbSales)
                 /\ expenses = dbExpenses
                 /\ purchaseOrders = SortDesc(dbPurchaseOrders)
            ELSE /\ inventory = DecrementAll(ops[k].inv, ops[k].items)
                 /\ sales # <<>> /\ sales[1] = ops[k].rec

====
